---- MODULE Spec2Model ----
(***************************************************************************)
(* A model of dll.c / dll.h: an intrusive circular doubly-linked list.     *)
(*                                                                         *)
(* Memory is modelled at the level the C code sees it.  A record r lives   *)
(* at the address Addr(r); its embedded dll_link_t lives `offset` cells    *)
(* further.  Pointers are integers: a link pointer is the address of a     *)
(* link, a data pointer is the address of a record.  The two conversions   *)
(* data_from_link and link_from_data are the pointer arithmetic of the     *)
(* source, so that a comparison of a data pointer with a link pointer is   *)
(* decided by the addresses, as it is in C.                                *)
(***************************************************************************)
EXTENDS Integers, Sequences, FiniteSets

\* ------------------------------------------------------------------------
\* Bounds of the model
\* ------------------------------------------------------------------------

\* Number of caller-owned records.
NumRecords == 4

\* The link sits at the start of its record or MaxOffset cells after it.
MaxOffset == 1

\* ------------------------------------------------------------------------
\* Layout
\* ------------------------------------------------------------------------

\* A dll_link_t is two pointers.
LinkSize == 2

\* The absent pointer.
NULL == 0

\* (void*) 0xdeadbeef, read as a 32-bit two's complement integer.
DEADBEEF == -559038737

\* A record is large enough to hold its link at the largest offset.
RecSize == MaxOffset + LinkSize

Records == 1..NumRecords

Offsets == {0, MaxOffset}

\* The two dll_root_t cells the caller declares.
Lists == {"A", "B"}

\* The two execution contexts that may call the library at the same time,
\* the list they both push to, and the record each of them pushes.
Threads == {"T1", "T2"}

RaceList == "A"

RaceRec(t) == IF t = "T1" THEN NumRecords - 1 ELSE NumRecords

\* The lists the caller of Spec works on; the other stays as constructed.
Active == {"A"}

\* The caller of SpecTwo keeps each record for one of its two lists.
Home(r) == IF 2 * r <= NumRecords + 1 THEN "A" ELSE "B"

\* dll_root_t *head_link_pp is one of: the address of a caller's root cell
\* (a list name), the address of the callee's local variable, or NULL.
LOCAL_PP == "local"

NULL_PP == "null"

\* "no list" in the caller's bookkeeping.
NoList == "none"

\* Address of record r (records do not overlap, none sits at NULL).
Addr(r) == r * RecSize

VARIABLES
    offset,   \* the offset of the link in the caller's record type
    root,     \* root[l]: the dll_root_t cell of list l (a link pointer)
    next_p,   \* next_p[r]: field next_p of the link embedded in record r
    prev_p,   \* prev_p[r]: field prev_p of the link embedded in record r
    fault,    \* an operation read or wrote through a pointer to no link
    ret,      \* the value the last call returned (NULL for a void call)
    op,       \* the last call: its name, the list it was made on, and its
              \* record arguments as the data pointers passed (else NULL)
    pre,      \* root, next_p, prev_p and where as they were before it
    where,    \* caller's bookkeeping: the list each record was put in
    fifo,     \* the run of tail pushes being followed: its list, the records
              \* pushed since the list was empty, how many were popped
    prior,    \* the push onto an empty list that immediately preceded op
    locking,  \* the callers wrap each call in a lock of their own
    lock,     \* the holder of that lock
    thr       \* thr[t]: where execution context t stands inside
              \* dll_push_tail, with its arguments and local variables

vars == <<offset, root, next_p, prev_p, fault, ret, op, pre, where, fifo, prior,
          locking, lock, thr>>

\* ------------------------------------------------------------------------
\* Link conversion
\* ------------------------------------------------------------------------

data_from_link(off, link_p) == link_p - off

link_from_data(off, data_p) == data_p + off

\* ------------------------------------------------------------------------
\* Memory access.  m is the memory an operation works on: the root cells,
\* the callee's local root cell, the link fields, the fault flag and the
\* return value.
\* ------------------------------------------------------------------------

\* p is the address of the link of some record.
IsLink(p) == \E r \in Records : Addr(r) + offset = p

LinkRec(p) == CHOOSE r \in Records : Addr(r) + offset = p

\* d is the address of some record.
IsData(d) == \E r \in Records : Addr(r) = d

DataRec(d) == CHOOSE r \in Records : Addr(r) = d

\* A dereference of p: it faults unless p points to a link.
Deref(m, p) == IF IsLink(p) THEN m ELSE [m EXCEPT !.fault = TRUE]

\* p->next_p and p->prev_p as values (what a wild read yields is garbage).
get_next(m, p) == IF IsLink(p) THEN m.next_p[LinkRec(p)] ELSE DEADBEEF

get_prev(m, p) == IF IsLink(p) THEN m.prev_p[LinkRec(p)] ELSE DEADBEEF

\* p->next_p = v and p->prev_p = v.
set_next(m, p, v) ==
    IF IsLink(p) THEN [m EXCEPT !.next_p[LinkRec(p)] = v]
    ELSE [m EXCEPT !.fault = TRUE]

set_prev(m, p, v) ==
    IF IsLink(p) THEN [m EXCEPT !.prev_p[LinkRec(p)] = v]
    ELSE [m EXCEPT !.fault = TRUE]

\* *head_link_pp and *head_link_pp = v.
get_root(m, pp) ==
    IF pp = LOCAL_PP THEN m.local
    ELSE IF pp \in Lists THEN m.root[pp]
    ELSE DEADBEEF

\* set_root keeping one head for all lists, whatever head_link_pp is.
set_root_Shared(m, pp, v) ==
    IF pp = LOCAL_PP THEN [m EXCEPT !.local = v]
    ELSE IF pp \in Lists THEN [m EXCEPT !.root = [l \in Lists |-> v]]
    ELSE [m EXCEPT !.fault = TRUE]

set_root(m, pp, v) ==
    IF pp = LOCAL_PP THEN [m EXCEPT !.local = v]
    ELSE IF pp \in Lists THEN [m EXCEPT !.root[pp] = v]
    ELSE [m EXCEPT !.fault = TRUE]

\* ------------------------------------------------------------------------
\* The operations of dll.c, each a function from memory to memory
\* ------------------------------------------------------------------------

dll_init_root(m, pp) == set_root(m, pp, NULL)

dll_init_link(m, link_p) ==
    LET m1 == set_next(m, link_p, DEADBEEF)
    IN  set_prev(m1, link_p, DEADBEEF)

\* dll_push_tail without line 80: the left neighbour keeps pointing at the
\* head.
dll_push_tail_NoLeftNext(off, m, pp, elt_p) ==
    LET new_link_p == link_from_data(off, elt_p) IN
    IF get_root(m, pp) # NULL
    THEN LET right_link_p == get_root(m, pp)
             left_link_p  == get_prev(m, right_link_p)
             m0 == Deref(m, right_link_p)
             m1 == set_next(m0, new_link_p, right_link_p)
             m2 == set_prev(m1, new_link_p, left_link_p)
             m4 == set_prev(m2, right_link_p, new_link_p)
         IN  m4
    ELSE LET m1 == set_prev(m, new_link_p, new_link_p)
             m2 == set_next(m1, new_link_p, new_link_p)
         IN  set_root(m2, pp, new_link_p)

\* dll_push_tail without line 81: right_link_p->prev_p keeps designating
\* the old tail.
dll_push_tail_NoRightPrev(off, m, pp, elt_p) ==
    LET new_link_p == link_from_data(off, elt_p) IN
    IF get_root(m, pp) # NULL
    THEN LET right_link_p == get_root(m, pp)
             left_link_p  == get_prev(m, right_link_p)
             m0 == Deref(m, right_link_p)
             m1 == set_next(m0, new_link_p, right_link_p)
             m2 == set_prev(m1, new_link_p, left_link_p)
             m3 == set_next(m2, left_link_p, new_link_p)
         IN  m3
    ELSE LET m1 == set_prev(m, new_link_p, new_link_p)
             m2 == set_next(m1, new_link_p, new_link_p)
         IN  set_root(m2, pp, new_link_p)

\* dll_push_tail taking, on line 76, the link two places left of the head:
\* it writes the next_p of a link that is not a neighbour of the gap.
dll_push_tail_FarLeft(off, m, pp, elt_p) ==
    LET new_link_p == link_from_data(off, elt_p) IN
    IF get_root(m, pp) # NULL
    THEN LET right_link_p == get_root(m, pp)
             left_link_p  == get_prev(m, get_prev(m, right_link_p))
             m0 == Deref(m, right_link_p)
             m1 == set_next(m0, new_link_p, right_link_p)
             m2 == set_prev(m1, new_link_p, left_link_p)
             m3 == set_next(m2, left_link_p, new_link_p)
             m4 == set_prev(m3, right_link_p, new_link_p)
         IN  m4
    ELSE LET m1 == set_prev(m, new_link_p, new_link_p)
             m2 == set_next(m1, new_link_p, new_link_p)
         IN  set_root(m2, pp, new_link_p)

dll_push_tail(off, m, pp, elt_p) ==
    LET new_link_p == link_from_data(off, elt_p) IN
    IF get_root(m, pp) # NULL
    THEN LET right_link_p == get_root(m, pp)
             left_link_p  == get_prev(m, right_link_p)
             m0 == Deref(m, right_link_p)
             m1 == set_next(m0, new_link_p, right_link_p)
             m2 == set_prev(m1, new_link_p, left_link_p)
             m3 == set_next(m2, left_link_p, new_link_p)
             m4 == set_prev(m3, right_link_p, new_link_p)
         IN  m4
    ELSE LET m1 == set_prev(m, new_link_p, new_link_p)
             m2 == set_next(m1, new_link_p, new_link_p)
         IN  set_root(m2, pp, new_link_p)

\* dll_push_head without line 64: the head reference is not repointed.
dll_push_head_NoRepoint(off, m, pp, elt_p) ==
    dll_push_tail(off, m, pp, elt_p)

dll_push_head(off, m, pp, elt_p) ==
    LET m1 == dll_push_tail(off, m, pp, elt_p)
    IN  set_root(m1, pp, link_from_data(off, elt_p))

\* dll_pop_head without line 106: the head is not nulled when the list
\* empties.
dll_pop_head_NoNull(off, m, pp) ==
    IF get_root(m, pp) = NULL
    THEN [m EXCEPT !.ret = NULL]
    ELSE LET pop_link_p == get_root(m, pp)
             m0 == Deref(m, pop_link_p)
             m3 == IF get_next(m0, pop_link_p) # pop_link_p
                   THEN LET right_link_p == get_next(m0, pop_link_p)
                            left_link_p  == get_prev(m0, pop_link_p)
                            m1 == set_next(m0, left_link_p, right_link_p)
                            m2 == set_prev(m1, right_link_p, left_link_p)
                        IN  set_root(m2, pp, right_link_p)
                   ELSE m0
             m4 == dll_init_link(m3, pop_link_p)
         IN  [m4 EXCEPT !.ret = data_from_link(off, pop_link_p)]

\* dll_pop_head without line 101: the right neighbour keeps pointing back
\* at the popped link.
dll_pop_head_NoRightPrev(off, m, pp) ==
    IF get_root(m, pp) = NULL
    THEN [m EXCEPT !.ret = NULL]
    ELSE LET pop_link_p == get_root(m, pp)
             m0 == Deref(m, pop_link_p)
             m3 == IF get_next(m0, pop_link_p) # pop_link_p
                   THEN LET right_link_p == get_next(m0, pop_link_p)
                            left_link_p  == get_prev(m0, pop_link_p)
                            m1 == set_next(m0, left_link_p, right_link_p)
                        IN  set_root(m1, pp, right_link_p)
                   ELSE set_root(m0, pp, NULL)
             m4 == dll_init_link(m3, pop_link_p)
         IN  [m4 EXCEPT !.ret = data_from_link(off, pop_link_p)]

\* dll_pop_head without line 109: the popped link keeps its stale pointers.
dll_pop_head_NoPoison(off, m, pp) ==
    IF get_root(m, pp) = NULL
    THEN [m EXCEPT !.ret = NULL]
    ELSE LET pop_link_p == get_root(m, pp)
             m0 == Deref(m, pop_link_p)
             m3 == IF get_next(m0, pop_link_p) # pop_link_p
                   THEN LET right_link_p == get_next(m0, pop_link_p)
                            left_link_p  == get_prev(m0, pop_link_p)
                            m1 == set_next(m0, left_link_p, right_link_p)
                            m2 == set_prev(m1, right_link_p, left_link_p)
                        IN  set_root(m2, pp, right_link_p)
                   ELSE set_root(m0, pp, NULL)
         IN  [m3 EXCEPT !.ret = data_from_link(off, pop_link_p)]

\* dll_pop_head with line 103 advancing the head to the left neighbour.
dll_pop_head_AdvanceLeft(off, m, pp) ==
    IF get_root(m, pp) = NULL
    THEN [m EXCEPT !.ret = NULL]
    ELSE LET pop_link_p == get_root(m, pp)
             m0 == Deref(m, pop_link_p)
             m3 == IF get_next(m0, pop_link_p) # pop_link_p
                   THEN LET right_link_p == get_next(m0, pop_link_p)
                            left_link_p  == get_prev(m0, pop_link_p)
                            m1 == set_next(m0, left_link_p, right_link_p)
                            m2 == set_prev(m1, right_link_p, left_link_p)
                        IN  set_root(m2, pp, left_link_p)
                   ELSE set_root(m0, pp, NULL)
             m4 == dll_init_link(m3, pop_link_p)
         IN  [m4 EXCEPT !.ret = data_from_link(off, pop_link_p)]

dll_pop_head(off, m, pp) ==
    IF get_root(m, pp) = NULL
    THEN [m EXCEPT !.ret = NULL]
    ELSE LET pop_link_p == get_root(m, pp)
             m0 == Deref(m, pop_link_p)
             m3 == IF get_next(m0, pop_link_p) # pop_link_p
                   THEN LET right_link_p == get_next(m0, pop_link_p)
                            left_link_p  == get_prev(m0, pop_link_p)
                            m1 == set_next(m0, left_link_p, right_link_p)
                            m2 == set_prev(m1, right_link_p, left_link_p)
                        IN  set_root(m2, pp, right_link_p)
                   ELSE set_root(m0, pp, NULL)
             m4 == dll_init_link(m3, pop_link_p)
         IN  [m4 EXCEPT !.ret = data_from_link(off, pop_link_p)]

\* dll_head without the test of line 120.
dll_head_NoEmptyCheck(off, m, pp) ==
    [m EXCEPT !.ret = data_from_link(off, get_root(m, pp))]

dll_head(off, m, pp) ==
    IF get_root(m, pp) # NULL
    THEN [m EXCEPT !.ret = data_from_link(off, get_root(m, pp))]
    ELSE [m EXCEPT !.ret = NULL]

\* dll_tail without the test of line 129.
dll_tail_NoEmptyCheck(off, m, pp) ==
    [Deref(m, get_root(m, pp)) EXCEPT
         !.ret = data_from_link(off, get_prev(m, get_root(m, pp)))]

dll_tail(off, m, pp) ==
    IF get_root(m, pp) # NULL
    THEN [Deref(m, get_root(m, pp)) EXCEPT
              !.ret = data_from_link(off, get_prev(m, get_root(m, pp)))]
    ELSE [m EXCEPT !.ret = NULL]

dll_next(off, m, elt_p) ==
    [Deref(m, link_from_data(off, elt_p)) EXCEPT
         !.ret = data_from_link(off, get_next(m, link_from_data(off, elt_p)))]

dll_prev(off, m, elt_p) ==
    [Deref(m, link_from_data(off, elt_p)) EXCEPT
         !.ret = data_from_link(off, get_prev(m, link_from_data(off, elt_p)))]

\* dll_ins_before without the head comparison of lines 160-161: a supplied
\* list reference always receives the new element as its head.
dll_ins_before_NoHeadTest(off, m, pp, insert_before_me_p, new_elt_p) ==
    IF pp # NULL_PP
    THEN dll_push_head(off, m, pp, new_elt_p)
    ELSE LET m1 == set_root(m, LOCAL_PP, link_from_data(off, insert_before_me_p))
         IN  dll_push_head(off, m1, LOCAL_PP, new_elt_p)

dll_ins_before(off, m, pp, insert_before_me_p, new_elt_p) ==
    IF pp # NULL_PP
       /\ dll_head(off, m, pp).ret = link_from_data(off, insert_before_me_p)
    THEN dll_push_head(off, m, pp, new_elt_p)
    ELSE LET m1 == set_root(m, LOCAL_PP, link_from_data(off, insert_before_me_p))
         IN  dll_push_head(off, m1, LOCAL_PP, new_elt_p)

\* dll_ins_after passing the anchor itself, not its successor, on line 152.
dll_ins_after_Before(off, m, insert_after_me_p, new_elt_p) ==
    dll_ins_before(off, m, NULL_PP, insert_after_me_p, new_elt_p)

\* dll_ins_after reading dll_prev, not dll_next, on line 152.
dll_ins_after_Prev(off, m, insert_after_me_p, new_elt_p) ==
    LET m1 == dll_prev(off, m, insert_after_me_p)
    IN  dll_ins_before(off, m1, NULL_PP, m1.ret, new_elt_p)

dll_ins_after(off, m, insert_after_me_p, new_elt_p) ==
    LET m1 == dll_next(off, m, insert_after_me_p)
    IN  dll_ins_before(off, m1, NULL_PP, m1.ret, new_elt_p)

\* dll_remove always taking the branch of line 176: the list reference is
\* never used.
dll_remove_IgnoreList(off, m, pp, remove_me_p) ==
    LET m1 == set_root(m, LOCAL_PP, link_from_data(off, remove_me_p))
    IN  dll_pop_head(off, m1, LOCAL_PP)

\* dll_remove without the head comparison of line 173: a supplied list
\* reference is always popped.
dll_remove_NoHeadTest(off, m, pp, remove_me_p) ==
    IF pp # NULL_PP
    THEN dll_pop_head(off, m, pp)
    ELSE LET m1 == set_root(m, LOCAL_PP, link_from_data(off, remove_me_p))
         IN  dll_pop_head(off, m1, LOCAL_PP)

dll_remove(off, m, pp, remove_me_p) ==
    IF pp # NULL_PP /\ dll_head(off, m, pp).ret = remove_me_p
    THEN dll_pop_head(off, m, pp)
    ELSE LET m1 == set_root(m, LOCAL_PP, link_from_data(off, remove_me_p))
         IN  dll_pop_head(off, m1, LOCAL_PP)

\* dll_pop_tail removing at the head instead of at dll_tail.
dll_pop_tail_PopsHead(off, m, pp) ==
    dll_pop_head(off, m, pp)

dll_pop_tail(off, m, pp) ==
    LET m1 == dll_tail(off, m, pp)
    IN  dll_remove(off, m1, pp, m1.ret)

\* dll_is_empty without the negation of line 182.
dll_is_empty_NoNegation(m, pp) ==
    [m EXCEPT !.ret = IF get_root(m, pp) # NULL THEN 1 ELSE 0]

dll_is_empty(m, pp) ==
    [m EXCEPT !.ret = IF get_root(m, pp) = NULL THEN 1 ELSE 0]

\* ------------------------------------------------------------------------
\* The caller.  Each action is one call of the library, made under the
\* contract of dll.h: links are initialised, only a record that is in no
\* list is pushed or inserted, an anchor or a removed record is in a list,
\* and the offset passed is the offset of the link in the record.
\* ------------------------------------------------------------------------

\* The memory a call starts from.
Mem ==
    [root |-> root, local |-> NULL, next_p |-> next_p, prev_p |-> prev_p,
     fault |-> FALSE, ret |-> NULL]

Detached(r) == where[r] = NoList

\* No run of tail pushes is being followed.
FifoNone == [list |-> NoList, in |-> <<>>, k |-> 0]

\* fifo after pushTail(l, r): a push onto an empty list starts a run, a
\* push before the first pop of the run extends it, a later one ends it.
FifoPush(l, r) ==
    IF root[l] = NULL THEN [list |-> l, in |-> <<r>>, k |-> 0]
    ELSE IF fifo.list # l THEN fifo
    ELSE IF fifo.k = 0 THEN [fifo EXCEPT !.in = Append(@, r)]
    ELSE FifoNone

\* fifo after popHead(l) on a non-empty list: one more record of the run
\* has been popped.
FifoPop(l) ==
    IF fifo.list # l \/ root[l] = NULL THEN fifo
    ELSE IF fifo.k < Len(fifo.in) THEN [fifo EXCEPT !.k = @ + 1]
    ELSE FifoNone

\* fifo after any other call that changes list l: the run is over.
FifoEnd(l) == IF fifo.list = l THEN FifoNone ELSE fifo

\* The part of a step every call shares: memory, return value and history.
Call(name, l, anchor, elt, m, isVoid) ==
    /\ ~fault
    /\ root' = m.root
    /\ next_p' = m.next_p
    /\ prev_p' = m.prev_p
    /\ fault' = m.fault
    /\ ret' = IF isVoid THEN NULL ELSE m.ret
    /\ op' = [name |-> name, list |-> l, anchor |-> anchor, elt |-> elt]
    /\ pre' = [root |-> root, next_p |-> next_p, prev_p |-> prev_p,
               where |-> where]
    /\ prior' = IF op.name \in {"pushHead", "pushTail"}
                   /\ pre.root[op.list] = NULL
                THEN [name |-> op.name, list |-> op.list, elt |-> op.elt]
                ELSE [name |-> "none", list |-> NoList, elt |-> NULL]
    /\ offset' = offset
    /\ UNCHANGED <<locking, lock, thr>>

\* The caller's bookkeeping after a call that returned the record at d.
Taken(d) == IF IsData(d) THEN [where EXCEPT ![DataRec(d)] = NoList] ELSE where

InitLink(r) ==
    /\ Detached(r)
    /\ Call("initLink", NoList, NULL, Addr(r),
            dll_init_link(Mem, link_from_data(offset, Addr(r))), TRUE)
    /\ UNCHANGED <<where, fifo>>

PushHead(l, r) ==
    /\ Detached(r)
    /\ Call("pushHead", l, NULL, Addr(r),
            dll_push_head(offset, Mem, l, Addr(r)), TRUE)
    /\ where' = [where EXCEPT ![r] = l]
    /\ fifo' = FifoEnd(l)

PushTail(l, r) ==
    /\ Detached(r)
    /\ Call("pushTail", l, NULL, Addr(r),
            dll_push_tail(offset, Mem, l, Addr(r)), TRUE)
    /\ where' = [where EXCEPT ![r] = l]
    /\ fifo' = FifoPush(l, r)

PopHead(l) ==
    LET m == dll_pop_head(offset, Mem, l) IN
    /\ Call("popHead", l, NULL, NULL, m, FALSE)
    /\ where' = Taken(m.ret)
    /\ fifo' = FifoPop(l)

PopTail(l) ==
    LET m == dll_pop_tail(offset, Mem, l) IN
    /\ Call("popTail", l, NULL, NULL, m, FALSE)
    /\ where' = Taken(m.ret)
    /\ fifo' = FifoEnd(l)

GetHead(l) ==
    /\ Call("head", l, NULL, NULL, dll_head(offset, Mem, l), FALSE)
    /\ UNCHANGED <<where, fifo>>

GetTail(l) ==
    /\ Call("tail", l, NULL, NULL, dll_tail(offset, Mem, l), FALSE)
    /\ UNCHANGED <<where, fifo>>

GetNext(r) ==
    /\ ~Detached(r)
    /\ Call("next", where[r], NULL, Addr(r), dll_next(offset, Mem, Addr(r)), FALSE)
    /\ UNCHANGED <<where, fifo>>

GetPrev(r) ==
    /\ ~Detached(r)
    /\ Call("prev", where[r], NULL, Addr(r), dll_prev(offset, Mem, Addr(r)), FALSE)
    /\ UNCHANGED <<where, fifo>>

IsEmpty(l) ==
    /\ Call("isEmpty", l, NULL, NULL, dll_is_empty(Mem, l), FALSE)
    /\ UNCHANGED <<where, fifo>>

InsAfter(a, r) ==
    /\ ~Detached(a)
    /\ Detached(r)
    /\ Call("insAfter", where[a], Addr(a), Addr(r),
            dll_ins_after(offset, Mem, Addr(a), Addr(r)), TRUE)
    /\ where' = [where EXCEPT ![r] = where[a]]
    /\ fifo' = FifoEnd(where[a])

\* insertBefore with the list reference supplied.
InsBefore(a, r) ==
    /\ ~Detached(a)
    /\ Detached(r)
    /\ Call("insBefore", where[a], Addr(a), Addr(r),
            dll_ins_before(offset, Mem, where[a], Addr(a), Addr(r)), TRUE)
    /\ where' = [where EXCEPT ![r] = where[a]]
    /\ fifo' = FifoEnd(where[a])

\* insertBefore with NULL passed for the list reference.
InsBeforeNoList(a, r) ==
    /\ ~Detached(a)
    /\ Detached(r)
    /\ Call("insBeforeNoList", where[a], Addr(a), Addr(r),
            dll_ins_before(offset, Mem, NULL_PP, Addr(a), Addr(r)), TRUE)
    /\ where' = [where EXCEPT ![r] = where[a]]
    /\ fifo' = FifoEnd(where[a])

\* remove with the list reference supplied.
Remove(r) ==
    LET m == dll_remove(offset, Mem, where[r], Addr(r)) IN
    /\ ~Detached(r)
    /\ Call("remove", where[r], NULL, Addr(r), m, FALSE)
    /\ where' = Taken(m.ret)
    /\ fifo' = FifoEnd(where[r])

\* remove with NULL passed for the list reference, of a record that is not
\* the head of a list with a root cell (dll.h: "failing to pass a list
\* head risks invalidating it").
RemoveNoList(r) ==
    LET m == dll_remove(offset, Mem, NULL_PP, Addr(r)) IN
    /\ ~Detached(r)
    /\ root[where[r]] # link_from_data(offset, Addr(r))
    /\ Call("removeNoList", where[r], NULL, Addr(r), m, FALSE)
    /\ where' = Taken(m.ret)
    /\ fifo' = FifoEnd(where[r])

\* remove with NULL passed for the list reference, of the head of a list
\* with a root cell: the case dll.h warns about.
RemoveHeadNoList(r) ==
    LET m == dll_remove(offset, Mem, NULL_PP, Addr(r)) IN
    /\ ~Detached(r)
    /\ root[where[r]] = link_from_data(offset, Addr(r))
    /\ Call("removeNoList", where[r], NULL, Addr(r), m, FALSE)
    /\ where' = Taken(m.ret)
    /\ fifo' = FifoEnd(where[r])

\* The root cell of l designates a link that is not in l: the caller must
\* not pass it to the library until it is initialised again.
Stale(l) ==
    /\ root[l] # NULL
    /\ ~(IsLink(root[l]) /\ where[LinkRec(root[l])] = l)

\* dll_init_root on a list that has no record left.
InitRoot(l) ==
    /\ \A r \in Records : where[r] # l
    /\ Call("initRoot", l, NULL, NULL, dll_init_root(Mem, l), TRUE)
    /\ where' = where
    /\ fifo' = FifoEnd(l)

\* Memory as the caller declares it, before any initialisation (every
\* cell is written by an init call before it is read).
Raw ==
    [root |-> [l \in Lists |-> NULL], local |-> NULL,
     next_p |-> [r \in Records |-> NULL], prev_p |-> [r \in Records |-> NULL],
     fault |-> FALSE, ret |-> NULL]

\* An execution context that has not called dll_push_tail yet: arguments
\* chosen, local variables not yet written.
Idle(t) ==
    [pc |-> "idle", pp |-> RaceList, elt_p |-> Addr(RaceRec(t)),
     new_link_p |-> NULL, right_link_p |-> NULL, left_link_p |-> NULL]

\* The state after construction: every root through dll_init_root, every
\* link through dll_init_link.
Init ==
    /\ offset \in Offsets
    /\ root = [l \in Lists |-> dll_init_root(Raw, l).root[l]]
    /\ next_p = [r \in Records |->
                   dll_init_link(Raw, link_from_data(offset, Addr(r))).next_p[r]]
    /\ prev_p = [r \in Records |->
                   dll_init_link(Raw, link_from_data(offset, Addr(r))).prev_p[r]]
    /\ fault = FALSE
    /\ ret = NULL
    /\ op = [name |-> "init", list |-> NoList, anchor |-> NULL, elt |-> NULL]
    /\ pre = [root |-> root, next_p |-> next_p, prev_p |-> prev_p,
              where |-> [r \in Records |-> NoList]]
    /\ where = [r \in Records |-> NoList]
    /\ fifo = FifoNone
    /\ prior = [name |-> "none", list |-> NoList, elt |-> NULL]
    /\ locking = FALSE
    /\ lock = "free"
    /\ thr = [t \in Threads |-> Idle(t)]

Next ==
    \/ \E r \in Records : InitLink(r)
    \/ \E l \in Active, r \in Records : PushHead(l, r)
    \/ \E l \in Active, r \in Records : PushTail(l, r)
    \/ \E l \in Active : PopHead(l)
    \/ \E l \in Active : PopTail(l)
    \/ \E l \in Active : GetHead(l)
    \/ \E l \in Active : GetTail(l)
    \/ \E r \in Records : GetNext(r)
    \/ \E r \in Records : GetPrev(r)
    \/ \E l \in Active : IsEmpty(l)
    \/ \E a, r \in Records : InsAfter(a, r)
    \/ \E a, r \in Records : InsBefore(a, r)
    \/ \E a, r \in Records : InsBeforeNoList(a, r)
    \/ \E r \in Records : Remove(r)
    \/ \E r \in Records : RemoveNoList(r)

Spec == Init /\ [][Next]_vars

\* The calls that take no list reference.
Headless ==
    \/ \E r \in Records : InitLink(r)
    \/ \E r \in Records : GetNext(r)
    \/ \E r \in Records : GetPrev(r)
    \/ \E a, r \in Records : InsAfter(a, r)
    \/ \E a, r \in Records : InsBeforeNoList(a, r)
    \/ \E r \in Records : RemoveNoList(r)

\* The caller that may also remove the head of a list without passing the
\* list reference.  While a root cell is stale it makes only the calls
\* that take no list reference, or initialises the root cell again once
\* the list has no record left.
NextStale ==
    \/ (\A l \in Lists : ~Stale(l)) /\ Next
    \/ \E r \in Records : RemoveHeadNoList(r)
    \/ (\E l \in Lists : Stale(l)) /\ Headless
    \/ \E l \in Active : Stale(l) /\ InitRoot(l)

SpecStale == Init /\ [][NextStale]_vars

\* The caller that works on both lists, each with its own records.
NextTwo ==
    \/ \E r \in Records : InitLink(r)
    \/ \E r \in Records : PushHead(Home(r), r)
    \/ \E r \in Records : PushTail(Home(r), r)
    \/ \E l \in Lists : PopHead(l)
    \/ \E l \in Lists : PopTail(l)
    \/ \E l \in Lists : GetHead(l)
    \/ \E l \in Lists : GetTail(l)
    \/ \E r \in Records : GetNext(r)
    \/ \E r \in Records : GetPrev(r)
    \/ \E l \in Lists : IsEmpty(l)
    \/ \E a, r \in Records : Home(a) = Home(r) /\ InsAfter(a, r)
    \/ \E a, r \in Records : Home(a) = Home(r) /\ InsBefore(a, r)
    \/ \E a, r \in Records : Home(a) = Home(r) /\ InsBeforeNoList(a, r)
    \/ \E r \in Records : Remove(r)
    \/ \E r \in Records : RemoveNoList(r)

SpecTwo == Init /\ [][NextTwo]_vars

\* ------------------------------------------------------------------------
\* Two execution contexts in dll_push_tail on the same list.  Each read or
\* write of a shared cell (the root cell, a link field) is one step; the
\* steps of the two contexts interleave freely unless the callers hold a
\* lock of their own around the whole call.
\* ------------------------------------------------------------------------

\* One step that leaves out line 80: left_link_p->next_p is never written.
push_tail_step_SkipLine80(off, m, loc) ==
    IF loc.pc = "l71"
    THEN [m |-> m, loc |-> [loc EXCEPT !.new_link_p = link_from_data(off, loc.elt_p),
                                       !.pc = "l73"]]
    ELSE IF loc.pc = "l73"
    THEN [m |-> m, loc |-> [loc EXCEPT !.pc = IF get_root(m, loc.pp) # NULL
                                              THEN "l75" ELSE "l84p"]]
    ELSE IF loc.pc = "l75"
    THEN [m |-> m, loc |-> [loc EXCEPT !.right_link_p = get_root(m, loc.pp),
                                       !.pc = "l76"]]
    ELSE IF loc.pc = "l76"
    THEN [m |-> Deref(m, loc.right_link_p),
          loc |-> [loc EXCEPT !.left_link_p = get_prev(m, loc.right_link_p),
                              !.pc = "l78"]]
    ELSE IF loc.pc = "l78"
    THEN [m |-> set_next(m, loc.new_link_p, loc.right_link_p),
          loc |-> [loc EXCEPT !.pc = "l79"]]
    ELSE IF loc.pc = "l79"
    THEN [m |-> set_prev(m, loc.new_link_p, loc.left_link_p),
          loc |-> [loc EXCEPT !.pc = "l81"]]
    ELSE IF loc.pc = "l81"
    THEN [m |-> set_prev(m, loc.right_link_p, loc.new_link_p),
          loc |-> [loc EXCEPT !.pc = "ret"]]
    ELSE IF loc.pc = "l84p"
    THEN [m |-> set_prev(m, loc.new_link_p, loc.new_link_p),
          loc |-> [loc EXCEPT !.pc = "l84n"]]
    ELSE IF loc.pc = "l84n"
    THEN [m |-> set_next(m, loc.new_link_p, loc.new_link_p),
          loc |-> [loc EXCEPT !.pc = "l84h"]]
    ELSE [m |-> set_root(m, loc.pp, loc.new_link_p),
          loc |-> [loc EXCEPT !.pc = "ret"]]

\* One step of dll_push_tail for the context whose arguments, local
\* variables and position are loc, on memory m.  The position names the
\* source line about to be executed; line 84 is three stores (into
\* prev_p, next_p and the root cell).
push_tail_step(off, m, loc) ==
    IF loc.pc = "l71"
    THEN [m |-> m, loc |-> [loc EXCEPT !.new_link_p = link_from_data(off, loc.elt_p),
                                       !.pc = "l73"]]
    ELSE IF loc.pc = "l73"
    THEN [m |-> m, loc |-> [loc EXCEPT !.pc = IF get_root(m, loc.pp) # NULL
                                              THEN "l75" ELSE "l84p"]]
    ELSE IF loc.pc = "l75"
    THEN [m |-> m, loc |-> [loc EXCEPT !.right_link_p = get_root(m, loc.pp),
                                       !.pc = "l76"]]
    ELSE IF loc.pc = "l76"
    THEN [m |-> Deref(m, loc.right_link_p),
          loc |-> [loc EXCEPT !.left_link_p = get_prev(m, loc.right_link_p),
                              !.pc = "l78"]]
    ELSE IF loc.pc = "l78"
    THEN [m |-> set_next(m, loc.new_link_p, loc.right_link_p),
          loc |-> [loc EXCEPT !.pc = "l79"]]
    ELSE IF loc.pc = "l79"
    THEN [m |-> set_prev(m, loc.new_link_p, loc.left_link_p),
          loc |-> [loc EXCEPT !.pc = "l80"]]
    ELSE IF loc.pc = "l80"
    THEN [m |-> set_next(m, loc.left_link_p, loc.new_link_p),
          loc |-> [loc EXCEPT !.pc = "l81"]]
    ELSE IF loc.pc = "l81"
    THEN [m |-> set_prev(m, loc.right_link_p, loc.new_link_p),
          loc |-> [loc EXCEPT !.pc = "ret"]]
    ELSE IF loc.pc = "l84p"
    THEN [m |-> set_prev(m, loc.new_link_p, loc.new_link_p),
          loc |-> [loc EXCEPT !.pc = "l84n"]]
    ELSE IF loc.pc = "l84n"
    THEN [m |-> set_next(m, loc.new_link_p, loc.new_link_p),
          loc |-> [loc EXCEPT !.pc = "l84h"]]
    ELSE [m |-> set_root(m, loc.pp, loc.new_link_p),
          loc |-> [loc EXCEPT !.pc = "ret"]]

\* The history variables of the sequential caller stay as they were.
RaceFrame == UNCHANGED <<offset, ret, op, pre, fifo, prior, locking>>

\* Context t calls dll_push_tail; with locking it first takes the lock.
Enter(t) ==
    /\ thr[t].pc = "idle"
    /\ locking => lock = "free"
    /\ lock' = IF locking THEN t ELSE lock
    /\ thr' = [thr EXCEPT ![t].pc = "l71"]
    /\ UNCHANGED <<root, next_p, prev_p, fault, where>>
    /\ RaceFrame

\* Context t executes the line it stands at.
Step(t) ==
    LET s == push_tail_step(offset, Mem, thr[t]) IN
    /\ thr[t].pc \notin {"idle", "ret", "done"}
    /\ root' = s.m.root
    /\ next_p' = s.m.next_p
    /\ prev_p' = s.m.prev_p
    /\ fault' = (fault \/ s.m.fault)
    /\ thr' = [thr EXCEPT ![t] = s.loc]
    /\ UNCHANGED <<lock, where>>
    /\ RaceFrame

\* dll_push_tail returns to context t, which notes the record as pushed
\* and, with locking, releases the lock.
Leave(t) ==
    /\ thr[t].pc = "ret"
    /\ thr' = [thr EXCEPT ![t].pc = "done"]
    /\ lock' = IF locking THEN "free" ELSE lock
    /\ where' = [where EXCEPT ![RaceRec(t)] = thr[t].pp]
    /\ UNCHANGED <<root, next_p, prev_p, fault>>
    /\ RaceFrame

\* Memory after the records 1..k were pushed, one call after the other, at
\* the tail of RaceList.
RECURSIVE Prefilled(_)
Prefilled(k) ==
    IF k = 0
    THEN [Raw EXCEPT
            !.root = [l \in Lists |-> dll_init_root(Raw, l).root[l]],
            !.next_p = [r \in Records |->
                dll_init_link(Raw, link_from_data(offset, Addr(r))).next_p[r]],
            !.prev_p = [r \in Records |->
                dll_init_link(Raw, link_from_data(offset, Addr(r))).prev_p[r]]]
    ELSE dll_push_tail(offset, Prefilled(k - 1), RaceList, Addr(k))

\* Both contexts are about to push, each its own detached record, to a
\* list that holds the records 1..k.
InitRace ==
    /\ offset \in Offsets
    /\ locking \in BOOLEAN
    /\ lock = "free"
    /\ thr = [t \in Threads |-> Idle(t)]
    /\ \E k \in 0..(NumRecords - Cardinality(Threads)) :
          /\ root = Prefilled(k).root
          /\ next_p = Prefilled(k).next_p
          /\ prev_p = Prefilled(k).prev_p
          /\ where = [r \in Records |-> IF r <= k THEN RaceList ELSE NoList]
    /\ fault = FALSE
    /\ ret = NULL
    /\ op = [name |-> "init", list |-> NoList, anchor |-> NULL, elt |-> NULL]
    /\ pre = [root |-> root, next_p |-> next_p, prev_p |-> prev_p,
              where |-> where]
    /\ fifo = FifoNone
    /\ prior = [name |-> "none", list |-> NoList, elt |-> NULL]

NextRace ==
    \/ \E t \in Threads : Enter(t)
    \/ \E t \in Threads : Step(t)
    \/ \E t \in Threads : Leave(t)

SpecRace == InitRace /\ [][NextRace]_vars

\* ------------------------------------------------------------------------
\* Reading a state: the state now, the state before the last call, and
\* what the library's accessors answer in either
\* ------------------------------------------------------------------------

Cur == [root |-> root, next_p |-> next_p, prev_p |-> prev_p, where |-> where]

MemOf(st) ==
    [root |-> st.root, local |-> NULL, next_p |-> st.next_p,
     prev_p |-> st.prev_p, fault |-> FALSE, ret |-> NULL]

LinkAddr(r) == link_from_data(offset, Addr(r))

HeadOf(st, l) == dll_head(offset, MemOf(st), l).ret

TailOf(st, l) == dll_tail(offset, MemOf(st), l).ret

NextOf(st, d) == dll_next(offset, MemOf(st), d).ret

PrevOf(st, d) == dll_prev(offset, MemOf(st), d).ret

MembersIn(st, l) == {r \in Records : st.where[r] = l}

SizeIn(st, l) == Cardinality(MembersIn(st, l))

\* The link reached from p by following field f (next_p or prev_p) n times;
\* DEADBEEF when the walk leaves the links.
RECURSIVE Follow(_, _, _)
Follow(f, p, n) ==
    IF n = 0 THEN p
    ELSE IF ~IsLink(p) THEN DEADBEEF
    ELSE Follow(f, f[LinkRec(p)], n - 1)

\* The records read from link p on via next_p until the walk is back at
\* `stop`, at most `fuel` of them.
RECURSIVE Walk(_, _, _, _)
Walk(nx, p, stop, fuel) ==
    IF fuel = 0 \/ ~IsLink(p) THEN <<>>
    ELSE <<LinkRec(p)>> \o
         (IF nx[LinkRec(p)] = stop THEN <<>>
          ELSE Walk(nx, nx[LinkRec(p)], stop, fuel - 1))

\* The traversal head, next(head), next(next(head)), ... of list l.
Chain(st, l) ==
    IF st.root[l] = NULL THEN <<>>
    ELSE Walk(st.next_p, st.root[l], st.root[l], NumRecords + 1)

Without(seq, r) == SelectSeq(seq, LAMBDA x : x # r)

Pushes == {"pushHead", "pushTail"}

Pops == {"popHead", "popTail"}

\* ------------------------------------------------------------------------
\* Properties
\* ------------------------------------------------------------------------

\* C1: circular invariant.  After every operation, for every list, with
\* size the number of records the caller has in the list: an empty list has
\* a NULL head; otherwise following next_p from the head link exactly size
\* times returns to the head and visits the link of every member exactly
\* once, and following prev_p exactly size times also returns to the head.
C1_Circular ==
    \A l \in Lists :
        LET size == SizeIn(Cur, l) IN
        IF size = 0 THEN root[l] = NULL
        ELSE /\ IsLink(root[l])
             /\ Follow(next_p, root[l], size) = root[l]
             /\ Follow(prev_p, root[l], size) = root[l]
             /\ {Follow(next_p, root[l], k) : k \in 0..(size - 1)}
                    = {LinkAddr(r) : r \in MembersIn(Cur, l)}
             /\ \A k \in 1..(size - 1) : Follow(next_p, root[l], k) # root[l]

\* A remove of the head of a full list has just left a two-member circle.
C1_Witness ==
    /\ op.name = "remove"
    /\ pre.root[op.list] = link_from_data(offset, op.elt)
    /\ SizeIn(pre, op.list) = NumRecords
    /\ SizeIn(Cur, op.list) = NumRecords - 1
    /\ Follow(next_p, root[op.list], NumRecords - 1) = root[op.list]

\* C2: for every offset, insertBefore with the list reference supplied and
\* the anchor being the head of that list makes the new record the head of
\* the list, with the former head as its successor.
C2_InsBeforeHead ==
    (op.name = "insBefore" /\ pre.root[op.list] = link_from_data(offset, op.anchor))
        => /\ HeadOf(Cur, op.list) = op.elt
           /\ NextOf(Cur, op.elt) = op.anchor

\* C3: FIFO order.  While a run of pushTail calls that began on an empty
\* list, followed by popHead calls, is in progress on a list: the
\* traversal from the head reads the pushed records not yet popped, in push
\* order, the head reference is on the first of them, the k-th popHead
\* returns the k-th record pushed, and the list is Empty once as many
\* records were popped as were pushed.  A pushTail onto a non-empty list
\* leaves the head reference unchanged.
C3_Fifo ==
    /\ fifo.list # NoList =>
          LET l == fifo.list
              n == Len(fifo.in)
          IN  /\ Chain(Cur, l) = SubSeq(fifo.in, fifo.k + 1, n)
              /\ fifo.k < n => root[l] = LinkAddr(fifo.in[fifo.k + 1])
              /\ fifo.k = n => root[l] = NULL /\ dll_is_empty(Mem, l).ret # 0
              /\ (op.name = "popHead" /\ op.list = l /\ pre.root[l] # NULL)
                     => (fifo.k > 0 /\ ret = Addr(fifo.in[fifo.k]))
    /\ (op.name = "pushTail" /\ pre.root[op.list] # NULL)
          => root[op.list] = pre.root[op.list]

\* NumRecords records were pushed at the tail and all popped at the head.
C3_Witness ==
    /\ fifo.list # NoList
    /\ Len(fifo.in) = NumRecords
    /\ fifo.k = NumRecords
    /\ op.name = "popHead"
    /\ ret = Addr(fifo.in[NumRecords])
    /\ root[fifo.list] = NULL

\* C4: remove round-trip.  remove with the list reference supplied, of a
\* member r, returns r; the traversal from the head afterwards is the
\* traversal before with r taken out (one record shorter, r absent, the
\* others in their previous order); and when r was the head, the head
\* reference is on r's former successor, or NULL if r was the sole member.
C4_Remove ==
    op.name = "remove" =>
        LET l == op.list
            r == DataRec(op.elt)
            was == Chain(pre, l)
            now == Chain(Cur, l)
        IN  /\ ret = op.elt
            /\ Len(now) = Len(was) - 1
            /\ \A i \in 1..Len(now) : now[i] # r
            /\ now = Without(was, r)
            /\ pre.root[l] = link_from_data(offset, op.elt)
                   => root[l] = IF pre.next_p[r] = pre.root[l] THEN NULL
                                ELSE pre.next_p[r]

\* The head of a full list was removed at a nonzero offset.
C4_Witness ==
    /\ op.name = "remove"
    /\ offset # 0
    /\ pre.root[op.list] = link_from_data(offset, op.elt)
    /\ Len(Chain(pre, op.list)) = NumRecords
    /\ Len(Chain(Cur, op.list)) = NumRecords - 1
    /\ ret = op.elt

\* C5: pushHead makes the pushed record the head.  After pushHead of r,
\* head(list) is r; if the list was non-empty, next(r) is the former head
\* and tail(list) is what it was; if it was empty, r is also the tail.  In
\* particular after pushHead(a); pushHead(b) on an empty list, head(list)
\* is b and tail(list) is a.
C5_PushHead ==
    op.name = "pushHead" =>
        LET l == op.list IN
        /\ HeadOf(Cur, l) = op.elt
        /\ IF pre.root[l] # NULL
           THEN /\ NextOf(Cur, op.elt) = HeadOf(pre, l)
                /\ TailOf(Cur, l) = TailOf(pre, l)
           ELSE TailOf(Cur, l) = op.elt
        /\ (prior.name = "pushHead" /\ prior.list = l)
               => (HeadOf(Cur, l) = op.elt /\ TailOf(Cur, l) = prior.elt)

\* pushHead(a); pushHead(b) on an empty list has just run.
C5_Witness ==
    /\ op.name = "pushHead"
    /\ prior.name = "pushHead"
    /\ prior.list = op.list
    /\ prior.elt # op.elt
    /\ HeadOf(Cur, op.list) = op.elt
    /\ TailOf(Cur, op.list) = prior.elt

\* C6: insertAfter at the tail.  For every offset, insertAfter with the
\* tail of a non-empty list as the anchor makes the new record the tail:
\* prev of the head is the new link, next of the new record is the head,
\* and the head reference is what it was.
C6_InsAfterTail ==
    (op.name = "insAfter" /\ op.anchor = TailOf(pre, op.list)) =>
        LET l == op.list IN
        /\ TailOf(Cur, l) = op.elt
        /\ get_prev(Mem, root[l]) = link_from_data(offset, op.elt)
        /\ NextOf(Cur, op.elt) = HeadOf(Cur, l)
        /\ root[l] = pre.root[l]
        /\ HeadOf(Cur, l) = HeadOf(pre, l)

\* A record was inserted after the tail of a two-member list, at a nonzero
\* offset.
C6_Witness ==
    /\ op.name = "insAfter"
    /\ offset # 0
    /\ SizeIn(pre, op.list) = 2
    /\ op.anchor = TailOf(pre, op.list)
    /\ op.anchor # HeadOf(pre, op.list)
    /\ TailOf(Cur, op.list) = op.elt

\* C7: in every state, isEmpty(list) is nonzero iff the list has zero
\* members iff the head reference is NULL; and the value a call of isEmpty
\* returned is nonzero iff the list had zero members.
C7_IsEmpty ==
    /\ \A l \in Lists :
          /\ (dll_is_empty(Mem, l).ret # 0) <=> (MembersIn(Cur, l) = {})
          /\ (MembersIn(Cur, l) = {}) <=> (root[l] = NULL)
    /\ op.name = "isEmpty" => ((ret # 0) <=> (MembersIn(pre, op.list) = {}))

\* isEmpty answered nonzero on a list that had been filled and emptied, and
\* zero is what it answers on a list with members.
C7_Witness ==
    /\ op.name = "isEmpty"
    /\ ret # 0
    /\ fifo.list = op.list
    /\ fifo.k = NumRecords
    /\ MembersIn(Cur, op.list) = {}

\* C8: push/pop round-trip.  When a pushHead or pushTail of r onto an empty
\* list is followed immediately by a popHead or popTail on that list, the
\* pop returns r and the list is Empty again.
C8_PushPop ==
    (prior.name \in Pushes /\ op.name \in Pops /\ op.list = prior.list)
        => /\ ret = prior.elt
           /\ root[op.list] = NULL
           /\ dll_is_empty(Mem, op.list).ret # 0

\* pushHead onto an empty list was followed immediately by popTail.
C8_Witness ==
    /\ prior.name = "pushHead"
    /\ op.name = "popTail"
    /\ op.list = prior.list
    /\ offset # 0
    /\ ret = prior.elt
    /\ root[op.list] = NULL

\* C9: singleton self-reference.  In every state, a list with exactly one
\* member x has next(x) = x and prev(x) = x.
C9_Singleton ==
    \A l \in Lists :
        SizeIn(Cur, l) = 1 =>
            \A x \in MembersIn(Cur, l) :
                /\ NextOf(Cur, Addr(x)) = Addr(x)
                /\ PrevOf(Cur, Addr(x)) = Addr(x)

\* A list was brought down from two members to one by a pop or a remove.
C9_Witness ==
    /\ op.name \in Pops \cup {"remove", "removeNoList"}
    /\ SizeIn(pre, op.list) = 2
    /\ SizeIn(Cur, op.list) = 1
    /\ \A x \in MembersIn(Cur, op.list) : NextOf(Cur, Addr(x)) = Addr(x)

\* C10: on an Empty list, popHead, popTail, head and tail return NULL for
\* every offset, the list is still Empty afterwards, no link is modified
\* and nothing is read or written through a pointer to no link.
C10_EmptyOutcomes ==
    (op.name \in Pops \cup {"head", "tail"} /\ pre.root[op.list] = NULL)
        => /\ ret = NULL
           /\ root[op.list] = NULL
           /\ next_p = pre.next_p
           /\ prev_p = pre.prev_p
           /\ ~fault

\* popTail was called on an Empty list at a nonzero offset.
C10_Witness ==
    /\ op.name = "popTail"
    /\ offset # 0
    /\ pre.root[op.list] = NULL
    /\ MembersIn(pre, op.list) = {}
    /\ ret = NULL

\* C11: list independence.  With the two lists holding disjoint sets of
\* records, a call made on one list (or on a record of it, or on a record
\* in no list) leaves the head reference of the other list and the next_p
\* and prev_p of every member of the other list as they were.
C11_Independent ==
    \A o \in Lists \ {op.list} :
        /\ root[o] = pre.root[o]
        /\ \A r \in MembersIn(pre, o) :
              /\ next_p[r] = pre.next_p[r]
              /\ prev_p[r] = pre.prev_p[r]
              /\ where[r] = o

\* A record was removed from the head of one list while the other list
\* held two records.
C11_Witness ==
    /\ op.name = "remove"
    /\ op.list = "A"
    /\ pre.root["A"] = link_from_data(offset, op.elt)
    /\ SizeIn(pre, "A") >= 2
    /\ SizeIn(pre, "B") = 2
    /\ SizeIn(Cur, "B") = 2
    /\ root["B"] = pre.root["B"]

Removals == {"popHead", "popTail", "remove", "removeNoList"}

\* C12: re-poisoning on removal.  Whenever popHead, popTail or remove
\* (with or without a list reference) returns a record, next_p and prev_p
\* of that record's link hold the sentinel; and in every state each record
\* that is in no list has both link fields equal to the sentinel.
C12_Repoisoned ==
    /\ (op.name \in Removals /\ ret # NULL)
          => /\ IsData(ret)
             /\ next_p[DataRec(ret)] = DEADBEEF
             /\ prev_p[DataRec(ret)] = DEADBEEF
    /\ \A r \in Records :
          where[r] = NoList => (next_p[r] = DEADBEEF /\ prev_p[r] = DEADBEEF)

\* The head of a list of several records was removed without a list
\* reference, and its link holds the sentinel.
C12_Witness ==
    /\ op.name = "removeNoList"
    /\ pre.root[op.list] = link_from_data(offset, op.elt)
    /\ SizeIn(pre, op.list) >= 2
    /\ pre.next_p[DataRec(op.elt)] # DEADBEEF
    /\ ret = op.elt
    /\ next_p[DataRec(ret)] = DEADBEEF
    /\ prev_p[DataRec(ret)] = DEADBEEF

\* C13: for every non-empty list and every detached record new,
\* dll_ins_before without a list reference, before the head, and
\* dll_ins_after, after the tail, produce the same link fields and the
\* same root cells, the root cells being those before the call; and after
\* such an insertion before the head the new record is the tail and the
\* head reference is the one held before.
C13_BeforeHeadIsAfterTail ==
    /\ \A l \in Lists : \A r \in Records :
          (root[l] # NULL /\ Detached(r)) =>
             LET b == dll_ins_before(offset, Mem, NULL_PP,
                                     HeadOf(Cur, l), Addr(r))
                 a == dll_ins_after(offset, Mem, TailOf(Cur, l), Addr(r))
             IN  /\ b.next_p = a.next_p
                 /\ b.prev_p = a.prev_p
                 /\ b.root = a.root
                 /\ b.fault = a.fault
                 /\ b.root = root
    /\ (op.name = "insBeforeNoList" /\ op.anchor = HeadOf(pre, op.list))
          => /\ TailOf(Cur, op.list) = op.elt
             /\ root = pre.root

\* A record was inserted before the head of a list of three records,
\* without a list reference, and is now the tail.
C13_Witness ==
    /\ op.name = "insBeforeNoList"
    /\ op.anchor = HeadOf(pre, op.list)
    /\ SizeIn(pre, op.list) >= 3
    /\ TailOf(Cur, op.list) = op.elt
    /\ HeadOf(Cur, op.list) = op.anchor

\* C14: popTail on a list of two or more records returns the record that
\* was the tail (the one whose link the head's prev_p designated), leaves
\* the head reference as it was, and makes the former predecessor of the
\* tail the new tail; the traversal loses exactly its last record.  On a
\* list of one record it returns that record and the list is empty.
C14_PopTail ==
    (op.name = "popTail" /\ pre.root[op.list] # NULL) =>
        LET l == op.list
            h == pre.root[l]
            t == TailOf(pre, l)
            c == Chain(pre, l)
        IN  /\ ret = t
            /\ ret = data_from_link(offset, pre.prev_p[LinkRec(h)])
            /\ Chain(Cur, l) = SubSeq(c, 1, Len(c) - 1)
            /\ SizeIn(pre, l) >= 2
                  => /\ root[l] = h
                     /\ TailOf(Cur, l) = PrevOf(pre, t)
            /\ SizeIn(pre, l) = 1
                  => /\ ret = HeadOf(pre, l)
                     /\ root[l] = NULL
                     /\ dll_is_empty(Mem, l).ret = 1

\* popTail returned the tail of a list of three records.
C14_Witness ==
    /\ op.name = "popTail"
    /\ SizeIn(pre, op.list) = 3
    /\ ret = TailOf(pre, op.list)
    /\ ret # HeadOf(pre, op.list)
    /\ root[op.list] = pre.root[op.list]
    /\ TailOf(Cur, op.list) = PrevOf(pre, ret)

\* The set of records of a traversal.
ChainSet(st, l) == {Chain(st, l)[i] : i \in 1..Len(Chain(st, l))}

\* C15: after insertBefore (with or without a list reference) of the
\* detached record new before the member anchor: next(new) = anchor,
\* prev(anchor) = new and prev(new) is the former predecessor of anchor.
\* After insertAfter: prev(new) = anchor, next(anchor) = new and next(new)
\* is the former successor of anchor.  In both cases the list has exactly
\* one record more, and an insertBefore at a non-head anchor or an
\* insertAfter at a non-tail anchor leaves the head reference unchanged.
C15_InsertAdjacent ==
    /\ op.name \in {"insBefore", "insBeforeNoList"}
          => /\ NextOf(Cur, op.elt) = op.anchor
             /\ PrevOf(Cur, op.anchor) = op.elt
             /\ PrevOf(Cur, op.elt) = PrevOf(pre, op.anchor)
             /\ op.anchor # HeadOf(pre, op.list) => root = pre.root
    /\ op.name = "insAfter"
          => /\ PrevOf(Cur, op.elt) = op.anchor
             /\ NextOf(Cur, op.anchor) = op.elt
             /\ NextOf(Cur, op.elt) = NextOf(pre, op.anchor)
             /\ op.anchor # TailOf(pre, op.list) => root = pre.root
    /\ op.name \in {"insBefore", "insBeforeNoList", "insAfter"}
          => /\ Len(Chain(Cur, op.list)) = Len(Chain(pre, op.list)) + 1
             /\ ChainSet(Cur, op.list)
                   = ChainSet(pre, op.list) \cup {DataRec(op.elt)}
             /\ DataRec(op.elt) \notin ChainSet(pre, op.list)

\* A record was inserted, with the list reference, before a record that is
\* not the head of a list of three.
C15_Witness ==
    /\ op.name = "insBefore"
    /\ SizeIn(pre, op.list) = 3
    /\ op.anchor # HeadOf(pre, op.list)
    /\ NextOf(Cur, op.elt) = op.anchor
    /\ PrevOf(Cur, op.elt) = PrevOf(pre, op.anchor)
    /\ root = pre.root

\* The links reached from the link of record x by following field f fewer
\* than n times.
Orbit(f, x, n) == {Follow(f, LinkAddr(x), k) : k \in 0..(n - 1)}

\* The records of M form a closed circle among themselves: from each of
\* them next_p and prev_p visit exactly the links of M and come back after
\* Cardinality(M) steps, and next_p and prev_p are inverse on M.
ClosedCircle(M) ==
    LET n == Cardinality(M)
        links == {LinkAddr(y) : y \in M}
    IN  \A x \in M :
           /\ Orbit(next_p, x, n) = links
           /\ Orbit(prev_p, x, n) = links
           /\ Follow(next_p, LinkAddr(x), n) = LinkAddr(x)
           /\ Follow(prev_p, LinkAddr(x), n) = LinkAddr(x)
           /\ get_prev(Mem, next_p[x]) = LinkAddr(x)
           /\ get_next(Mem, prev_p[x]) = LinkAddr(x)

\* C16: remove, with the list reference, of a record that is not the head,
\* and remove without a list reference of any record, leave every root
\* cell as it was.  So after remove without a list reference of the head,
\* the root cell still designates the removed link, whose fields hold the
\* sentinel, and the records left in the list form a closed circle.
C16_RemoveFrame ==
    /\ (op.name = "remove"
        /\ pre.root[op.list] # link_from_data(offset, op.elt))
          => root = pre.root
    /\ op.name = "removeNoList"
          => /\ root = pre.root
             /\ ClosedCircle(MembersIn(Cur, op.list))
    /\ (op.name = "removeNoList"
        /\ pre.root[op.list] = link_from_data(offset, op.elt))
          => /\ root[op.list] = link_from_data(offset, op.elt)
             /\ next_p[DataRec(op.elt)] = DEADBEEF
             /\ prev_p[DataRec(op.elt)] = DEADBEEF
             /\ DataRec(op.elt) \notin MembersIn(Cur, op.list)

\* The head of a list of at least three records was removed without a list
\* reference: the root cell is stale and two or more records remain.
C16_Witness ==
    /\ op.name = "removeNoList"
    /\ pre.root[op.list] = link_from_data(offset, op.elt)
    /\ SizeIn(Cur, op.list) >= 2
    /\ Stale(op.list)
    /\ root[op.list] = link_from_data(offset, op.elt)
    /\ ClosedCircle(MembersIn(Cur, op.list))

\* The records next to the record at d in state st.
Neighbours(st, d) == {DataRec(NextOf(st, d)), DataRec(PrevOf(st, d))}

\* The records whose link fields the last call was entitled to write: the
\* record inserted or removed and its two chain neighbours.
Rewired ==
    LET l == op.list IN
    IF op.name \in {"pushHead", "pushTail"}
    THEN {DataRec(op.elt)} \cup
         (IF pre.root[l] = NULL THEN {}
          ELSE {DataRec(HeadOf(pre, l)), DataRec(TailOf(pre, l))})
    ELSE IF op.name \in {"insBefore", "insBeforeNoList"}
    THEN {DataRec(op.elt), DataRec(op.anchor),
          DataRec(PrevOf(pre, op.anchor))}
    ELSE IF op.name = "insAfter"
    THEN {DataRec(op.elt), DataRec(op.anchor),
          DataRec(NextOf(pre, op.anchor))}
    ELSE IF op.name = "popHead" /\ pre.root[l] # NULL
    THEN {DataRec(HeadOf(pre, l))} \cup Neighbours(pre, HeadOf(pre, l))
    ELSE IF op.name = "popTail" /\ pre.root[l] # NULL
    THEN {DataRec(TailOf(pre, l))} \cup Neighbours(pre, TailOf(pre, l))
    ELSE IF op.name \in {"remove", "removeNoList"}
    THEN {DataRec(op.elt)} \cup Neighbours(pre, op.elt)
    ELSE {}

Mutators ==
    {"pushHead", "pushTail", "insBefore", "insBeforeNoList", "insAfter",
     "popHead", "popTail", "remove", "removeNoList"}

Accessors == {"head", "tail", "next", "prev", "isEmpty"}

\* The calls that are handed a list reference.
WithList == {"pushHead", "pushTail", "insBefore", "popHead", "popTail", "remove"}

\* C17: a mutating call writes the link fields of at most the record
\* inserted or removed and its two chain neighbours, and at most the one
\* root cell it was handed; next_p and prev_p of every other record are
\* as before.  head, tail, next, prev and isEmpty write nothing.
C17_BoundedRewiring ==
    /\ op.name \in Mutators
          => /\ Cardinality(Rewired) <= 3
             /\ \A r \in Records \ Rewired :
                   /\ next_p[r] = pre.next_p[r]
                   /\ prev_p[r] = pre.prev_p[r]
             /\ \A l \in Lists :
                   (op.name \notin WithList \/ l # op.list)
                      => root[l] = pre.root[l]
    /\ op.name \in Accessors
          => /\ root = pre.root
             /\ next_p = pre.next_p
             /\ prev_p = pre.prev_p

\* A record was pushed at the tail of a list of three: the member that is
\* neither head nor tail kept its link fields, and the head and the tail
\* were rewired.
C17_Witness ==
    /\ op.name = "pushTail"
    /\ SizeIn(pre, op.list) = 3
    /\ \E r \in MembersIn(pre, op.list) \ Rewired :
          /\ next_p[r] = pre.next_p[r]
          /\ prev_p[r] = pre.prev_p[r]
    /\ \E r \in MembersIn(pre, op.list) : next_p[r] # pre.next_p[r]
    /\ \E r \in MembersIn(pre, op.list) : prev_p[r] # pre.prev_p[r]

\* Both concurrent calls of dll_push_tail have returned.
RaceOver == \A t \in Threads : thr[t].pc = "done"

\* The list the two contexts pushed to satisfies the circular invariant
\* and both pushed records are in the traversal from its head.
RaceIntact ==
    LET M == MembersIn(Cur, RaceList) IN
    /\ IsLink(root[RaceList])
    /\ LinkRec(root[RaceList]) \in M
    /\ ClosedCircle(M)
    /\ Len(Chain(Cur, RaceList)) = Cardinality(M)
    /\ \A t \in Threads : RaceRec(t) \in ChainSet(Cur, RaceList)

\* Memory after context t and then context u pushed, one after the other.
OneAfterTheOther(t, u) ==
    dll_push_tail(offset,
                  dll_push_tail(offset, MemOf(pre), RaceList, Addr(RaceRec(t))),
                  RaceList, Addr(RaceRec(u)))

\* C18: when every call of dll_push_tail runs entirely under the callers'
\* lock, at most one context is inside the call at any time, and once both
\* calls have returned the list satisfies the circular invariant, both
\* pushed records are in the traversal from the head, and memory is what
\* the two calls made one after the other, in one of the two orders,
\* leave.  (That without the lock a broken final state is reachable is
\* the state C18_Witness describes.)
C18_LockedPushesIntact ==
    locking =>
        /\ \A t, u \in Threads :
              (thr[t].pc \notin {"idle", "done"} /\ thr[u].pc \notin {"idle", "done"})
                 => t = u
        /\ RaceOver =>
              /\ RaceIntact
              /\ ~fault
              /\ \E t, u \in Threads :
                    /\ t # u
                    /\ root = OneAfterTheOther(t, u).root
                    /\ next_p = OneAfterTheOther(t, u).next_p
                    /\ prev_p = OneAfterTheOther(t, u).prev_p

\* Without the lock, both calls pushed to a non-empty list, both have
\* returned, and the circular invariant is violated or a pushed record is
\* not in the traversal from the head.
C18_Witness ==
    /\ ~locking
    /\ pre.root[RaceList] # NULL
    /\ RaceOver
    /\ ~RaceIntact

\* C19: under the contract (links initialised, only detached records
\* pushed or inserted, anchors and removed records members), for every
\* offset, no call reads or writes through NULL, through the sentinel or
\* through any other pointer that designates no link; in particular
\* popTail on an empty list returns NULL and writes nothing.
C19_NoWildDereference ==
    /\ ~fault
    /\ (op.name = "popTail" /\ pre.root[op.list] = NULL)
          => /\ ret = NULL
             /\ root = pre.root
             /\ next_p = pre.next_p
             /\ prev_p = pre.prev_p

\* popTail was called on an empty list with the link at a nonzero offset.
C19_Witness ==
    /\ op.name = "popTail"
    /\ pre.root[op.list] = NULL
    /\ offset = MaxOffset
    /\ ret = NULL
    /\ ~fault

\* C20: in every reachable state, for the link of every record that is in
\* a list, next_p and prev_p are neither NULL nor the sentinel, designate
\* links of records in the same list, and are inverse of each other:
\* next_p->prev_p and prev_p->next_p are the link itself.
C20_LinkSymmetry ==
    \A r \in Records :
        where[r] # NoList =>
            /\ next_p[r] \notin {NULL, DEADBEEF}
            /\ prev_p[r] \notin {NULL, DEADBEEF}
            /\ IsLink(next_p[r])
            /\ IsLink(prev_p[r])
            /\ where[LinkRec(next_p[r])] = where[r]
            /\ where[LinkRec(prev_p[r])] = where[r]
            /\ get_prev(Mem, next_p[r]) = LinkAddr(r)
            /\ get_next(Mem, prev_p[r]) = LinkAddr(r)

\* Both lists hold two records each, so every link designates another
\* link of its own list.
C20_Witness ==
    /\ \A l \in Lists : SizeIn(Cur, l) = 2
    /\ \A r \in Records :
          /\ next_p[r] # LinkAddr(r)
          /\ where[LinkRec(next_p[r])] = where[r]
          /\ get_prev(Mem, next_p[r]) = LinkAddr(r)

====
